---- MODULE Spec2Model ----
(***************************************************************************)
(* github-get-folder: one "start" lookup of "{rev}:{path}" resolves the    *)
(* root object of a remote repository subtree; trees are then walked by    *)
(* object id, every entry of a tree being fetched concurrently, and blobs  *)
(* are written below the local destination.  The model follows             *)
(* src/main.rs: _main (the resolver), tree (the fan-out) and get (one      *)
(* branch of the fan-out).                                                 *)
(***************************************************************************)
EXTENDS Naturals, Sequences, FiniteSets, TLC

VARIABLES
    args,      \* parsed command line: [rev, remote, local]
    remote,    \* the remote object graph: [root, objs]
    pc,        \* position of main: "args", "start", "walk", "shutdown" (_main has
               \* returned, the blocking pool is not empty), "exited"
    rev_parse, \* the rev_parse variable of the start lookup, <<>> before it is sent
    tasks,     \* the futures of the walk, keyed by the chain of entry names
    blocking,  \* filesystem operations handed to the blocking pool, not yet run
    fs,        \* the local filesystem: path -> node
    result,    \* what _main returned: "none", "ok" or an error
    failedAt,  \* <<chain>> of the branch whose error ended the run, else <<>>
    seen,      \* chain -> the reply its lookup got
    lookups,   \* chain -> number of lookups sent for it
    journal,   \* filesystem operations that took effect in this run
    fs0,       \* the filesystem when this run began
    runs       \* number of runs of the program so far, this one included

vars == <<args, remote, pc, rev_parse, tasks, blocking, fs, result, failedAt,
          seen, lookups, journal, fs0, runs>>

----------------------------------------------------------------------------
(* Bounds of the model.                                                    *)

\* longest remote path, in characters, given on the command line
MaxPathLen == 3
\* object ids of the remote graph are 1..MaxOid
MaxOid == 2
\* most entries of one tree
MaxEntries == 2
\* most entry occurrences (branches) of one walk
MaxBranches == 3
\* how often the program is run against the same destination
MaxRuns == 2

\* characters a remote path is made of
PathChars == {"/", "a", "b"}
\* entry names, by position in a tree listing (unique within a listing)
EntryNames == <<"a", "b", "c", "d">>

Oids == 1..MaxOid

----------------------------------------------------------------------------
(* Sequences.                                                              *)

\* Iterator::rev
Rev(s) == [i \in 1..Len(s) |-> s[Len(s) + 1 - i]]

\* Iterator::skip(n)
Skip(s, n) == IF Len(s) <= n THEN <<>> ELSE SubSeq(s, n + 1, Len(s))

IsPrefix(p, q) == Len(p) <= Len(q) /\ SubSeq(q, 1, Len(p)) = p

IsStrictPrefix(p, q) == Len(p) < Len(q) /\ IsPrefix(p, q)

Parent(p) == SubSeq(p, 1, Len(p) - 1)

Last(s) == s[Len(s)]

\* all sequences over S of length at most n
RECURSIVE SeqsUpTo(_, _)
SeqsUpTo(S, n) ==
    IF n = 0 THEN {<<>>}
    ELSE LET shorter == SeqsUpTo(S, n - 1)
         IN  shorter \cup {Append(s, x) : s \in {t \in shorter : Len(t) = n - 1}, x \in S}

----------------------------------------------------------------------------
(* Remote paths: strings are sequences of one-character strings.           *)

\* Utf8Path::is_absolute (unix: the path has a root)
IsAbsolute(path) == Len(path) > 0 /\ path[1] = "/"

\* the names between separators, empty ones dropped
RECURSIVE SplitNames(_, _, _)
SplitNames(path, i, cur) ==
    IF i > Len(path)
    THEN IF cur = <<>> THEN <<>> ELSE <<cur>>
    ELSE IF path[i] = "/"
         THEN (IF cur = <<>> THEN <<>> ELSE <<cur>>) \o SplitNames(path, i + 1, <<>>)
         ELSE SplitNames(path, i + 1, Append(cur, path[i]))

\* Utf8Path::components: RootDir first when the path is absolute, then the names
Components(path) ==
    (IF IsAbsolute(path) THEN << <<"/">> >> ELSE <<>>) \o SplitNames(path, 1, <<>>)

\* Utf8PathBuf::push
PathPush(buf, comp) ==
    IF IsAbsolute(comp) THEN comp
    ELSE IF buf # <<>> /\ Last(buf) # "/" THEN buf \o <<"/">> \o comp
    ELSE buf \o comp

\* FromIterator for Utf8PathBuf: push every component onto an empty buffer
RECURSIVE CollectPath(_, _)
CollectPath(buf, comps) ==
    IF comps = <<>> THEN buf
    ELSE CollectPath(PathPush(buf, Head(comps)), Tail(comps))

\* main.rs 197-207: components().rev().skip(1).collect::<Vec<_>>().into_iter().rev().collect()
NormalizeRemote(path) ==
    IF IsAbsolute(path)
    THEN CollectPath(<<>>, Rev(Skip(Rev(Components(path)), 1)))
    ELSE path

\* main.rs 213: format!("{}:{}", commit_ish, remote_path)
RevParse(rev, path) == rev \o <<":">> \o path

----------------------------------------------------------------------------
(* The local filesystem: a function from paths (sequences of names, taken  *)
(* from the working directory <<>>) to nodes.  Paths outside its domain do *)
(* not exist.  The content of a file is the sequence of the texts written  *)
(* to it since it was last truncated.                                      *)

DirNode == [type |-> "dir", content |-> <<>>]

FileNode(text) == [type |-> "file", content |-> text]

Put(f, k, v) == (k :> v) @@ f

Exists(f, p) == p \in DOMAIN f

IsDir(f, p) == Exists(f, p) /\ f[p].type = "dir"

IsFile(f, p) == Exists(f, p) /\ f[p].type = "file"

Prefixes(p) == {SubSeq(p, 1, n) : n \in 0..Len(p)}

\* some proper ancestor of p is a regular file
FileAbove(f, p) == \E q \in Prefixes(p) : q # p /\ IsFile(f, q)

\* WriteFile refusing to replace an existing file (create_new)
MutWriteFileCreateNew(f, p, text) ==
    IF IsDir(f, p) THEN [res |-> "IsADirectory", fs |-> f]
    ELSE IF FileAbove(f, p) THEN [res |-> "NotADirectory", fs |-> f]
    ELSE IF ~IsDir(f, Parent(p)) THEN [res |-> "NotFound", fs |-> f]
    ELSE IF IsFile(f, p) THEN [res |-> "AlreadyExists", fs |-> f]
    ELSE [res |-> "ok", fs |-> Put(f, p, FileNode(text))]

\* WriteFile creating the missing directories above the file first
MutWriteFileMkdirs(f, p, text) ==
    IF IsDir(f, p) THEN [res |-> "IsADirectory", fs |-> f]
    ELSE IF FileAbove(f, p) THEN [res |-> "NotADirectory", fs |-> f]
    ELSE [res |-> "ok",
          fs |-> Put([q \in DOMAIN f \cup Prefixes(Parent(p)) |->
                         IF q \in DOMAIN f THEN f[q] ELSE DirNode], p, FileNode(text))]

\* tokio::fs::write = std::fs::write: create or truncate the file and write all of
\* the text; the parent directory is not created
WriteFile(f, p, text) ==
    IF IsDir(f, p) THEN [res |-> "IsADirectory", fs |-> f]
    ELSE IF FileAbove(f, p) THEN [res |-> "NotADirectory", fs |-> f]
    ELSE IF ~IsDir(f, Parent(p)) THEN [res |-> "NotFound", fs |-> f]
    ELSE [res |-> "ok", fs |-> Put(f, p, FileNode(text))]

\* CreateDirAll failing on an existing directory (create_dir on each missing level)
MutCreateDir(f, p) ==
    IF Exists(f, p) THEN [res |-> "AlreadyExists", fs |-> f]
    ELSE IF FileAbove(f, p) THEN [res |-> "NotADirectory", fs |-> f]
    ELSE [res |-> "ok",
          fs |-> [q \in DOMAIN f \cup Prefixes(p) |->
                     IF q \in DOMAIN f THEN f[q] ELSE DirNode]]

\* CreateDirAll taking any existing path, file or directory, for done
MutCreateDirAllLenient(f, p) ==
    IF Exists(f, p) THEN [res |-> "ok", fs |-> f]
    ELSE IF FileAbove(f, p) THEN [res |-> "NotADirectory", fs |-> f]
    ELSE [res |-> "ok",
          fs |-> [q \in DOMAIN f \cup Prefixes(p) |->
                     IF q \in DOMAIN f THEN f[q] ELSE DirNode]]

\* tokio::fs::create_dir_all = std::fs::create_dir_all: an existing directory is
\* left alone, missing ancestors are created
CreateDirAll(f, p) ==
    IF IsDir(f, p) THEN [res |-> "ok", fs |-> f]
    ELSE IF IsFile(f, p) THEN [res |-> "AlreadyExists", fs |-> f]
    ELSE IF FileAbove(f, p) THEN [res |-> "NotADirectory", fs |-> f]
    ELSE [res |-> "ok",
          fs |-> [q \in DOMAIN f \cup Prefixes(p) |->
                     IF q \in DOMAIN f THEN f[q] ELSE DirNode]]

IoErrors == {"IsADirectory", "NotADirectory", "NotFound", "AlreadyExists"}

----------------------------------------------------------------------------
(* The remote object graph and the replies of a lookup.  An Option is a    *)
(* sequence of length at most one.                                         *)

Blob(text) == [kind |-> "Blob", text |-> text, entries |-> <<>>]

Tree(entries) == [kind |-> "Tree", text |-> <<>>, entries |-> entries]

Commit == [kind |-> "Commit", text |-> <<>>, entries |-> <<>>]

Tag == [kind |-> "Tag", text |-> <<>>, entries |-> <<>>]

\* replies that carry no object: the transport failed, or the reply has no
\* repository, or its repository has no object
TransportError == [kind |-> "Error", text |-> <<>>, entries |-> <<>>]

NoRepository == [kind |-> "NoRepository", text |-> <<>>, entries |-> <<>>]

NoObject == [kind |-> "NoObject", text |-> <<>>, entries |-> <<>>]

\* what a lookup of obj may come back with
Replies(obj) == {obj, TransportError, NoRepository, NoObject}

\* the text of the blob with id i (ids are content addresses; 0 is the root)
TextOf(i) == "t" \o ToString(i)

Entry(name, oid) == [name |-> name, oid |-> oid]

\* entry listings over the ids S: at most MaxEntries entries, names by position
Listings(S) ==
    {[k \in 1..Len(s) |-> Entry(EntryNames[k], s[k])] : s \in SeqsUpTo(S, MaxEntries)}

\* the objects id i may stand for; a tree refers to greater ids only
Objects(i) ==
    {Blob(<<TextOf(i)>>), Blob(<<>>), Commit, Tag, Tree(<<>>)}
        \cup {Tree(<<es>>) : es \in Listings((i + 1)..MaxOid)}

\* main.rs 107-110, 225-228: entries.into_iter().flatten()
EntriesOf(obj) ==
    IF obj.kind = "Tree" /\ obj.entries # <<>> THEN obj.entries[1] ELSE <<>>

\* the chains of entry names below obj in graph g, each prefixed by chain
RECURSIVE ChainsBelow(_, _, _)
ChainsBelow(g, obj, chain) ==
    UNION {{Append(chain, e.name)} \cup ChainsBelow(g, g[e.oid], Append(chain, e.name)) :
              e \in {EntriesOf(obj)[k] : k \in 1..Len(EntriesOf(obj))}}

\* the object at the end of a chain of names
RECURSIVE ObjectAt(_, _, _)
ObjectAt(g, obj, chain) ==
    IF chain = <<>> THEN obj
    ELSE LET e == CHOOSE x \in {EntriesOf(obj)[k] : k \in 1..Len(EntriesOf(obj))} :
                      x.name = Head(chain)
         IN  ObjectAt(g, g[e.oid], Tail(chain))

\* the ids a walk from obj reaches
RECURSIVE Reach(_, _)
Reach(g, obj) ==
    UNION {{e.oid} \cup Reach(g, g[e.oid]) :
              e \in {EntriesOf(obj)[k] : k \in 1..Len(EntriesOf(obj))}}

----------------------------------------------------------------------------
(* Initial states: the command line is parsed, nothing has been sent.      *)

\* the assignments of objects to the ids i..MaxOid
RECURSIVE ObjectMaps(_)
ObjectMaps(i) ==
    IF i > MaxOid THEN {<<>>}
    ELSE {(i :> o) @@ m : o \in Objects(i), m \in ObjectMaps(i + 1)}

\* the graphs, up to the naming of ids: the ids the root reaches are the greatest
\* ones, every other id stands for one fixed object, and the walk has at most
\* MaxBranches branches
Graphs ==
    {g \in [root : Objects(0), objs : ObjectMaps(1)] :
        /\ \A i \in Reach(g.objs, g.root) : \A j \in Oids : j > i => j \in Reach(g.objs, g.root)
        /\ \A i \in Oids \ Reach(g.objs, g.root) : g.objs[i] = Blob(<<TextOf(i)>>)
        /\ Cardinality(ChainsBelow(g.objs, g.root, <<>>)) <= MaxBranches}

\* Scenario B of the specification: a file, and a directory holding a file
ScenarioB ==
    [root |-> Tree(<< <<Entry("a", MaxOid), Entry("b", MaxOid - 1)>> >>),
     objs |-> [i \in Oids |->
                  IF i = MaxOid - 1 THEN Tree(<< <<Entry("a", MaxOid)>> >>)
                  ELSE Blob(<<TextOf(i)>>)]]

\* only the working directory exists
Cwd == (<<>> :> DirNode)

OldText == <<"old">>

\* filesystems in which the names of chain exist as directories below p, down to
\* some depth, possibly ending in a file
RECURSIVE Populated(_, _, _)
Populated(f, p, chain) ==
    {f} \cup (IF chain = <<>> THEN {}
              ELSE LET q == Append(p, Head(chain))
                   IN  {Put(f, q, FileNode(OldText))}
                           \cup Populated(Put(f, q, DirNode), q, Tail(chain)))

\* local destinations and the filesystems they are met in: the default ".", a
\* destination "out" with what may already be there, and a destination whose
\* parent directory is missing
Setups ==
    {[local |-> <<>>, fs |-> Cwd], [local |-> <<"x", "out">>, fs |-> Cwd]}
        \cup {[local |-> <<"out">>, fs |-> f] : f \in Populated(Cwd, <<>>, <<"out", "a", "a">>)}

DefaultRev == <<"HEAD">>

DefaultRemote == <<"/">>

RemotePaths == SeqsUpTo(PathChars, MaxPathLen)

Fresh(a, g, f) ==
    /\ args = a
    /\ remote = g
    /\ pc = "args"
    /\ rev_parse = <<>>
    /\ tasks = <<>>
    /\ blocking = {}
    /\ fs = f
    /\ result = "none"
    /\ failedAt = <<>>
    /\ seen = <<>>
    /\ lookups = <<>>
    /\ journal = <<>>
    /\ fs0 = f
    /\ runs = 1

\* any remote path and revision, against one repository and a fresh destination
InitPaths ==
    \E path \in RemotePaths, rev \in {DefaultRev, <<"v", "1">>} :
        Fresh([rev |-> rev, remote |-> path, local |-> <<"out">>], ScenarioB, Cwd)

\* the default remote path, against any repository and a fresh destination
InitWalks ==
    \E g \in Graphs :
        Fresh([rev |-> DefaultRev, remote |-> DefaultRemote, local |-> <<"out">>], g, Cwd)

\* the graphs in which no tree lists more than one entry
ChainGraphs ==
    {g \in Graphs :
        /\ Len(EntriesOf(g.root)) <= 1
        /\ \A i \in Reach(g.objs, g.root) : Len(EntriesOf(g.objs[i])) <= 1}

\* the default remote path, against a repository that is one chain of entries and
\* any destination
InitSetups ==
    \E g \in ChainGraphs, s \in Setups :
        Fresh([rev |-> DefaultRev, remote |-> DefaultRemote, local |-> s.local], g, s.fs)

\* a destination holding a directory "a" with a file "a" in it
Crowded ==
    Put(Put(Put(Cwd, <<"out">>, DirNode), <<"out", "a">>, DirNode),
        <<"out", "a", "a">>, FileNode(OldText))

\* the default remote path, against the repositories of fewer than MaxBranches
\* branches and a destination that holds a directory and a file already
InitCrowded ==
    \E g \in {x \in Graphs : Cardinality(ChainsBelow(x.objs, x.root, <<>>)) < MaxBranches} :
        Fresh([rev |-> DefaultRev, remote |-> DefaultRemote, local |-> <<"out">>], g, Crowded)

\* a repository of two directories side by side, each holding a file
Fanned ==
    [root |-> Tree(<< <<Entry("a", MaxOid - 1), Entry("b", MaxOid - 1)>> >>),
     objs |-> [i \in Oids |->
                  IF i = MaxOid - 1 THEN Tree(<< <<Entry("a", MaxOid)>> >>)
                  ELSE Blob(<<TextOf(i)>>)]]

\* the default remote path, against the repository of two directories and a
\* fresh destination
InitFanned ==
    Fresh([rev |-> DefaultRev, remote |-> DefaultRemote, local |-> <<"out">>], Fanned, Cwd)

Init == InitPaths \/ InitWalks \/ InitSetups \/ InitCrowded \/ InitFanned

----------------------------------------------------------------------------
(* The walk.                                                               *)

\* Join replacing the last component (with_file_name) instead of appending
MutJoin(local_path, name) == Append(Parent(local_path), name)

\* Join taking the name of the entry alone for its path
MutJoinBare(local_path, name) == <<name>>

\* Join forgotten: the entry is given the path of its directory
MutJoinSame(local_path, name) == local_path

\* main.rs 139: local_path.join(name)
Join(local_path, name) == Append(local_path, name)

\* Concurrency of one: the entries are fetched one after the other
MutConcurrencyOne(entries) == 1

\* Concurrency without the one added: as many futures as there are entries
MutConcurrencyLen(entries) == Len(entries)

\* main.rs 132: entries.len().saturating_add(1)
Concurrency(entries) == Len(entries) + 1

Task(st, oid, local_path, text, rest, limit) ==
    [st |-> st, oid |-> oid, local_path |-> local_path, text |-> text,
     rest |-> rest, limit |-> limit]

Children(ts, c) == {d \in DOMAIN ts : d # <<>> /\ Parent(d) = c}

\* the futures buffer_unordered holds for the tree at c
InFlight(ts, c) == {d \in Children(ts, c) : ts[d].st # "done"}

Bump(f, k) == IF k \in DOMAIN f THEN [f EXCEPT ![k] = @ + 1] ELSE Put(f, k, 1)

\* main.rs 133-143: buffer_unordered takes entries off the stream while fewer
\* than limit futures are in progress; a get future sends its lookup when polled
RECURSIVE Fill(_, _)
Fill(w, c) ==
    LET t == w.tasks[c]
    IN  IF t.rest = <<>> \/ Cardinality(InFlight(w.tasks, c)) >= t.limit THEN w
        ELSE LET e == Head(t.rest)
                 d == Append(c, e.name)
             IN  Fill([tasks |-> Put([w.tasks EXCEPT ![c].rest = Tail(t.rest)], d,
                                     Task("query", e.oid, Join(t.local_path, e.name),
                                          <<>>, <<>>, 0)),
                       lookups |-> Bump(w.lookups, d)], c)

\* Collected taking the first finished future for all of them
MutCollectedAny(ts, c) ==
    ts[c].rest = <<>> /\ (Children(ts, c) = {} \/ \E d \in Children(ts, c) : ts[d].st = "done")

\* main.rs 143-144: try_collect is done once no future is left in progress and
\* buffer_unordered has seen the end of the stream, which it polls only while
\* fewer than limit futures are in progress
Collected(ts, c) ==
    /\ ts[c].rest = <<>>
    /\ InFlight(ts, c) = {}
    /\ Cardinality(InFlight(ts, c)) < ts[c].limit

\* a future returned Ok: the tree holding it takes the next entry and, with
\* nothing left, returns Ok itself (main.rs 115, 120, 144-145)
RECURSIVE Finish(_, _)
Finish(w, c) ==
    LET done == [w EXCEPT !.tasks[c].st = "done"]
    IN  IF c = <<>> THEN done
        ELSE LET filled == Fill(done, Parent(c))
             IN  IF Collected(filled.tasks, Parent(c)) THEN Finish(filled, Parent(c))
                 ELSE filled

\* the filesystem operations in the blocking pool, as the futures awaiting them
\* are dropped
PendingOps(ts) ==
    {[op |-> ts[d].st, local_path |-> ts[d].local_path, text |-> ts[d].text] :
        d \in {x \in DOMAIN ts : ts[x].st \in {"write", "mkdir"}}}

\* the walk goes on, or _main returns Ok once its root future is done
Proceed(w) ==
    /\ tasks' = w.tasks
    /\ lookups' = w.lookups
    /\ failedAt' = failedAt
    /\ blocking' = blocking
    /\ IF w.tasks[<<>>].st = "done"
       THEN result' = "ok" /\ pc' = "exited"
       ELSE result' = result /\ pc' = "walk"

\* Fail with the errors of the branches of a tree ignored (the results of the
\* get futures dropped instead of collected)
MutFailSwallow(c, err) ==
    IF c \in DOMAIN tasks /\ c # <<>>
    THEN Proceed(Finish([tasks |-> tasks, lookups |-> lookups], c))
    ELSE /\ result' = err
         /\ failedAt' = <<c>>
         /\ blocking' = PendingOps([d \in DOMAIN tasks \ {c} |-> tasks[d]])
         /\ pc' = IF blocking' = {} THEN "exited" ELSE "shutdown"
         /\ tasks' = <<>>

\* Fail keeping the other branches of the walk running (the results joined, the
\* first error reported)
MutFailJoinAll(c, err) ==
    /\ result' = err
    /\ failedAt' = <<c>>
    /\ blocking' = blocking
    /\ pc' = IF c \in DOMAIN tasks THEN pc ELSE "exited"
    /\ tasks' = IF c \in DOMAIN tasks THEN [tasks EXCEPT ![c].st = "done"] ELSE tasks

\* an error leaves get, tree and _main through every `?` in one poll: the futures
\* of the walk are dropped, operations handed to the blocking pool stay there and
\* the process exits at once when there are none
Fail(c, err) ==
    /\ result' = err
    /\ failedAt' = <<c>>
    /\ blocking' = PendingOps([d \in DOMAIN tasks \ {c} |-> tasks[d]])
    /\ pc' = IF blocking' = {} THEN "exited" ELSE "shutdown"
    /\ tasks' = <<>>

\* StartError with a blob without text written as an empty file
MutStartErrorBinaryOk(reply) ==
    CASE reply.kind = "Error" -> "LookupFailed"
      [] reply.kind = "NoRepository" -> "NoRepository"
      [] reply.kind = "NoObject" -> "NoObject"
      [] reply.kind = "Commit" -> "UnexpectedCommit"
      [] reply.kind = "Tag" -> "UnexpectedTag"
      [] OTHER -> "none"

\* StartError with a tag taken for a tree
MutStartErrorTagOk(reply) ==
    CASE reply.kind = "Error" -> "LookupFailed"
      [] reply.kind = "NoRepository" -> "NoRepository"
      [] reply.kind = "NoObject" -> "NoObject"
      [] reply.kind = "Blob" /\ reply.text = <<>> -> "BinaryUnsupported"
      [] reply.kind = "Commit" -> "UnexpectedCommit"
      [] OTHER -> "none"

\* main.rs 209-221, 235-236: the error the reply of the start lookup ends in
StartError(reply) ==
    CASE reply.kind = "Error" -> "LookupFailed"
      [] reply.kind = "NoRepository" -> "NoRepository"
      [] reply.kind = "NoObject" -> "NoObject"
      [] reply.kind = "Blob" /\ reply.text = <<>> -> "BinaryUnsupported"
      [] reply.kind = "Commit" -> "UnexpectedCommit"
      [] reply.kind = "Tag" -> "UnexpectedTag"
      [] OTHER -> "none"

\* ContError with a blob without text written as an empty file
MutContErrorBinaryOk(reply) ==
    CASE reply.kind = "Error" -> "LookupFailed"
      [] reply.kind \in {"NoRepository", "NoObject"} -> "IncompleteResponse"
      [] reply.kind = "Commit" -> "UnexpectedCommit"
      [] reply.kind = "Tag" -> "UnexpectedTag"
      [] OTHER -> "none"

\* ContError with a reply without an object taken for an empty tree
MutContErrorMissingOk(reply) ==
    CASE reply.kind = "Error" -> "LookupFailed"
      [] reply.kind = "Blob" /\ reply.text = <<>> -> "BinaryUnsupported"
      [] reply.kind = "Commit" -> "UnexpectedCommit"
      [] reply.kind = "Tag" -> "UnexpectedTag"
      [] OTHER -> "none"

\* main.rs 84-99, 117-118: the error the reply of a lookup by id ends in
ContError(reply) ==
    CASE reply.kind = "Error" -> "LookupFailed"
      [] reply.kind \in {"NoRepository", "NoObject"} -> "IncompleteResponse"
      [] reply.kind = "Blob" /\ reply.text = <<>> -> "BinaryUnsupported"
      [] reply.kind = "Commit" -> "UnexpectedCommit"
      [] reply.kind = "Tag" -> "UnexpectedTag"
      [] OTHER -> "none"

\* the future a blob or tree reply turns into: a write handed to the blocking
\* pool (main.rs 97-101, 220), or tree's create_dir_all (main.rs 130)
Dispatch(reply, oid, local_path) ==
    IF reply.kind = "Blob"
    THEN Task("write", oid, local_path, reply.text, <<>>, 0)
    ELSE Task("mkdir", oid, local_path, <<>>, EntriesOf(reply),
              Concurrency(EntriesOf(reply)))

\* main.rs 197-214: normalize the remote path and send the start lookup
Resolve ==
    /\ pc = "args"
    /\ rev_parse' = RevParse(args.rev, NormalizeRemote(args.remote))
    /\ lookups' = Bump(lookups, <<>>)
    /\ pc' = "start"
    /\ UNCHANGED <<args, remote, tasks, blocking, fs, result, failedAt, seen,
                   journal, fs0, runs>>

\* main.rs 215-237: the start lookup returns and its object is matched
StartReturn ==
    /\ pc = "start"
    /\ \E reply \in Replies(remote.root) :
          /\ seen' = Put(seen, <<>>, reply)
          /\ IF StartError(reply) # "none"
             THEN Fail(<<>>, StartError(reply))
             ELSE /\ tasks' = Put(tasks, <<>>, Dispatch(reply, 0, args.local))
                  /\ pc' = "walk"
                  /\ UNCHANGED <<blocking, result, failedAt>>
    /\ UNCHANGED <<args, remote, rev_parse, fs, lookups, journal, fs0, runs>>

\* ContReturn sending the lookup once more when the transport failed
MutContReturnRetry(c) ==
    /\ pc = "walk"
    /\ tasks[c].st = "query"
    /\ \E reply \in Replies(remote.objs[tasks[c].oid]) :
          /\ seen' = Put(seen, c, reply)
          /\ IF reply = TransportError /\ lookups[c] < 2
             THEN /\ lookups' = Bump(lookups, c)
                  /\ UNCHANGED <<tasks, pc, blocking, result, failedAt>>
             ELSE /\ lookups' = lookups
                  /\ IF ContError(reply) # "none"
                     THEN Fail(c, ContError(reply))
                     ELSE /\ tasks' = [tasks EXCEPT
                                          ![c] = Dispatch(reply, tasks[c].oid,
                                                          tasks[c].local_path)]
                          /\ UNCHANGED <<pc, blocking, result, failedAt>>
    /\ UNCHANGED <<args, remote, rev_parse, fs, journal, fs0, runs>>

\* main.rs 84-119: the lookup of get returns and its object is matched
ContReturn(c) ==
    /\ pc = "walk"
    /\ tasks[c].st = "query"
    /\ \E reply \in Replies(remote.objs[tasks[c].oid]) :
          /\ seen' = Put(seen, c, reply)
          /\ IF ContError(reply) # "none"
             THEN Fail(c, ContError(reply))
             ELSE /\ tasks' = [tasks EXCEPT
                                  ![c] = Dispatch(reply, tasks[c].oid, tasks[c].local_path)]
                  /\ UNCHANGED <<pc, blocking, result, failedAt>>
    /\ UNCHANGED <<args, remote, rev_parse, fs, lookups, journal, fs0, runs>>

Op(t) == [op |-> t.st, local_path |-> t.local_path, text |-> t.text]

\* main.rs 97-102, 220-221: the write has run and its future returns
WriteDone(c) ==
    /\ pc = "walk"
    /\ tasks[c].st = "write"
    /\ LET r == WriteFile(fs, tasks[c].local_path, tasks[c].text)
       IN  IF r.res # "ok"
           THEN Fail(c, r.res) /\ UNCHANGED <<fs, journal, lookups>>
           ELSE /\ fs' = r.fs
                /\ journal' = Bump(journal, Op(tasks[c]))
                /\ Proceed(Finish([tasks |-> tasks, lookups |-> lookups], c))
    /\ UNCHANGED <<args, remote, rev_parse, seen, fs0, runs>>

\* MkdirDone without create_dir_all: the entries are streamed at once
MutMkdirDoneNoCreate(c) ==
    /\ pc = "walk"
    /\ tasks[c].st = "mkdir"
    /\ LET filled == Fill([tasks |-> [tasks EXCEPT ![c].st = "collect"],
                           lookups |-> lookups], c)
       IN  Proceed(IF Collected(filled.tasks, c) THEN Finish(filled, c) ELSE filled)
    /\ UNCHANGED <<args, remote, rev_parse, seen, fs0, runs, fs, journal>>

\* main.rs 130-145: create_dir_all has run, the entries are streamed into
\* buffer_unordered and collected
MkdirDone(c) ==
    /\ pc = "walk"
    /\ tasks[c].st = "mkdir"
    /\ LET r == CreateDirAll(fs, tasks[c].local_path)
           filled == Fill([tasks |-> [tasks EXCEPT ![c].st = "collect"],
                           lookups |-> lookups], c)
       IN  IF r.res # "ok"
           THEN Fail(c, r.res) /\ UNCHANGED <<fs, journal, lookups>>
           ELSE /\ fs' = r.fs
                /\ journal' = Bump(journal, Op(tasks[c]))
                /\ Proceed(IF Collected(filled.tasks, c) THEN Finish(filled, c)
                           ELSE filled)
    /\ UNCHANGED <<args, remote, rev_parse, seen, fs0, runs>>

\* a filesystem operation whose future was dropped still runs on its thread of
\* the blocking pool; nobody reads its result, and the process exits after the
\* last of them
BlockingRun(o) ==
    /\ pc = "shutdown"
    /\ o \in blocking
    /\ LET r == IF o.op = "write" THEN WriteFile(fs, o.local_path, o.text)
                ELSE CreateDirAll(fs, o.local_path)
       IN  /\ fs' = r.fs
           /\ journal' = IF r.res = "ok" THEN Bump(journal, o) ELSE journal
    /\ blocking' = blocking \ {o}
    /\ pc' = IF blocking' = {} THEN "exited" ELSE "shutdown"
    /\ UNCHANGED <<args, remote, rev_parse, tasks, result, failedAt, seen,
                   lookups, fs0, runs>>

\* Exit removing what a failed run wrote
MutExitCleanup ==
    /\ pc = "shutdown"
    /\ pc' = "exited"
    /\ blocking' = {}
    /\ fs' = IF result = "ok" THEN fs ELSE fs0
    /\ UNCHANGED <<args, remote, rev_parse, tasks, result, failedAt, seen,
                   lookups, journal, fs0, runs>>

\* main.rs 172-178: block_on has returned and the runtime is dropped: operations
\* still queued in the blocking pool never run, and the process exits
Exit ==
    /\ pc = "shutdown"
    /\ pc' = "exited"
    /\ blocking' = {}
    /\ UNCHANGED <<args, remote, rev_parse, tasks, fs, result, failedAt, seen,
                   lookups, journal, fs0, runs>>

\* the program is run again with the same arguments, after a run that succeeded
Rerun ==
    /\ pc = "exited"
    /\ result = "ok"
    /\ runs < MaxRuns
    /\ pc' = "args"
    /\ rev_parse' = <<>>
    /\ tasks' = <<>>
    /\ result' = "none"
    /\ failedAt' = <<>>
    /\ seen' = <<>>
    /\ lookups' = <<>>
    /\ journal' = <<>>
    /\ fs0' = fs
    /\ runs' = runs + 1
    /\ UNCHANGED <<args, remote, blocking, fs>>

Next ==
    \/ Resolve
    \/ StartReturn
    \/ \E c \in DOMAIN tasks : ContReturn(c)
    \/ \E c \in DOMAIN tasks : WriteDone(c)
    \/ \E c \in DOMAIN tasks : MkdirDone(c)
    \/ \E o \in blocking : BlockingRun(o)
    \/ Exit
    \/ Rerun

Spec == Init /\ [][Next]_vars

\* a step of the run itself: a reply or a filesystem operation returns, or the
\* process exits
Step ==
    \/ Resolve
    \/ StartReturn
    \/ \E c \in DOMAIN tasks : ContReturn(c) \/ WriteDone(c) \/ MkdirDone(c)
    \/ \E o \in blocking : BlockingRun(o)
    \/ Exit

\* the graphs of at most two branches
NarrowGraphs == {g \in Graphs : Cardinality(ChainsBelow(g.objs, g.root, <<>>)) <= 2}

\* the default remote path, against a repository of at most two branches and a
\* fresh destination
InitNarrow ==
    \E g \in NarrowGraphs :
        Fresh([rev |-> DefaultRev, remote |-> DefaultRemote, local |-> <<"out">>], g, Cwd)

\* the default remote path, against the repository of Scenario B and a fresh
\* destination
InitScenario ==
    Fresh([rev |-> DefaultRev, remote |-> DefaultRemote, local |-> <<"out">>],
          ScenarioB, Cwd)

\* the runs whose ending is checked: chains of directories against any
\* destination, and the repositories with branches side by side
LiveInit == InitSetups \/ InitNarrow \/ InitScenario \/ InitFanned

\* every lookup and every filesystem operation returns in the end, and the
\* runtime keeps polling the futures that are ready
LiveSpec == LiveInit /\ [][Next]_vars /\ WF_vars(Step)

----------------------------------------------------------------------------
(* What the properties speak of.                                           *)

\* the local path of the branch with chain c
Local(c) == args.local \o c

\* the chains of entry names of the whole remote tree
Chains == ChainsBelow(remote.objs, remote.root, <<>>)

\* the remote object at chain c
Remote(c) == ObjectAt(remote.objs, remote.root, c)

Replied(c) == c \in DOMAIN seen

Ended == pc = "exited"

UnexpectedKind == {"UnexpectedCommit", "UnexpectedTag"}

IncompleteErrors == {"NoRepository", "NoObject", "IncompleteResponse"}

\* errors that come from one request, not from the state of the repository
RequestErrors == {"LookupFailed"} \cup IncompleteErrors

\* the operations of this run that took effect at local path p
OpsAt(p) == {o \in DOMAIN journal : o.local_path = p}

\* how many operations of kind op took effect in this run
RECURSIVE Total(_, _)
Total(f, S) ==
    IF S = {} THEN 0 ELSE LET k == CHOOSE x \in S : TRUE IN f[k] + Total(f, S \ {k})

Count(op) == Total(journal, {o \in DOMAIN journal : o.op = op})

\* local path p is as it was when the run began
Untouched(p) ==
    /\ Exists(fs, p) <=> Exists(fs0, p)
    /\ Exists(fs, p) => fs[p] = fs0[p]

\* the node a remote object is materialized as
NodeOf(obj) == IF obj.kind = "Blob" THEN FileNode(obj.text) ELSE DirNode

\* nothing lay below the destination when the run began
EmptyDestination == \A q \in DOMAIN fs0 : ~IsStrictPrefix(args.local, q)

----------------------------------------------------------------------------
(* C1: for a remote path given in absolute style, the start lookup is sent *)
(* with the key "{rev}:c1/.../cn" made of all its named components: only   *)
(* the root component is removed.                                          *)

\* the key with the root component stripped and every name kept
StrippedKey == RevParse(args.rev, CollectPath(<<>>, SplitNames(args.remote, 1, <<>>)))

\* C1 as stated: an absolute remote path is looked up with its root stripped and
\* every name kept
C1_StartKeyKeepsEveryName ==
    (pc # "args" /\ IsAbsolute(args.remote)) => rev_parse = StrippedKey

----------------------------------------------------------------------------
(* C2: from an empty destination, a successful run over a root directory   *)
(* leaves below the destination exactly the descendants of the root, each  *)
(* at the destination joined with its chain of names: files with the text  *)
(* of their lookup, directories as directories, and no other path.         *)

\* C2: after success from an empty destination, the paths below it are exactly the
\* chains of the remote tree, each holding its file text or a directory
C2_SuccessMaterializesExactlyTheTree ==
    (result = "ok" /\ remote.root.kind = "Tree" /\ EmptyDestination) =>
        /\ IsDir(fs, args.local)
        /\ {q \in DOMAIN fs : IsStrictPrefix(args.local, q)} = {Local(c) : c \in Chains}
        /\ \A c \in Chains : fs[Local(c)] = NodeOf(Remote(c))

C2_Witness ==
    /\ Ended /\ result = "ok" /\ EmptyDestination
    /\ \E c \in Chains : Len(c) = 2 /\ IsFile(fs, Local(c))
    /\ \E c \in Chains : Len(c) = 1 /\ IsFile(fs, Local(c))

----------------------------------------------------------------------------
(* C3: when the start lookup resolves to a file with text, the run         *)
(* succeeds with exactly one write and the destination is a file holding   *)
(* exactly that text.                                                      *)

RootIsText == Replied(<<>>) /\ seen[<<>>].kind = "Blob" /\ seen[<<>>].text # <<>>

RootFileWritten ==
    /\ result = "ok"
    /\ Count("write") = 1 /\ Count("mkdir") = 0
    /\ fs[args.local] = FileNode(seen[<<>>].text)
    /\ \A q \in DOMAIN fs \cup DOMAIN fs0 : q # args.local => Untouched(q)

----------------------------------------------------------------------------
(* C4: every interleaving of a successful run ends in the same filesystem: *)
(* the one a walk in listing order, one entry at a time, ends in.          *)

RECURSIVE Materialize(_, _, _, _)
RECURSIVE MaterializeEntries(_, _, _, _)
Materialize(f, g, obj, local_path) ==
    IF obj.kind = "Blob" THEN WriteFile(f, local_path, obj.text).fs
    ELSE MaterializeEntries(CreateDirAll(f, local_path).fs, g, EntriesOf(obj), local_path)

MaterializeEntries(f, g, es, local_path) ==
    IF es = <<>> THEN f
    ELSE MaterializeEntries(
             Materialize(f, g, g[Head(es).oid], Join(local_path, Head(es).name)),
             g, Tail(es), local_path)

\* C4: a successful run ends in the filesystem of the walk in listing order,
\* whatever the order its lookups and writes completed in
C4_FinalStateIndependentOfOrder ==
    (Ended /\ result = "ok") => fs = Materialize(fs0, remote.objs, remote.root, args.local)

C4_Witness ==
    /\ Ended /\ result = "ok"
    /\ Len(EntriesOf(remote.root)) >= 2
    /\ \E c \in Chains : Len(c) = 2

----------------------------------------------------------------------------
(* C5: a file without text, at the root or at any depth, ends the run in   *)
(* the binary-content error as soon as its lookup has returned; a run over *)
(* a tree holding one never reports success.                               *)

BinaryRemote == \E c \in Chains \cup {<<>>} : Remote(c) = Blob(<<>>)

\* C5: a reply that is a blob without text fails the run as binary, and no run
\* over a tree holding such a blob succeeds
C5_BinaryFailsTheRun ==
    /\ (\E c \in DOMAIN seen : seen[c] = Blob(<<>>)) => result = "BinaryUnsupported"
    /\ result = "ok" => ~BinaryRemote

\* a nested binary file ended the run after a sibling had been written
C5_Witness ==
    /\ Ended /\ result = "BinaryUnsupported"
    /\ \E c \in DOMAIN seen : Len(c) >= 1 /\ seen[c] = Blob(<<>>) /\ failedAt = <<c>>
    /\ Count("write") >= 1

----------------------------------------------------------------------------
(* C6: when the start lookup resolves to a commit or a tag, the run fails, *)
(* no further lookup is sent and the filesystem is left as it was: no file *)
(* is written and no directory is created.                                 *)

RootIsReference == Replied(<<>>) /\ seen[<<>>].kind \in {"Commit", "Tag"}

\* C6: a commit or tag at the root fails the run after its one lookup, with the
\* filesystem as the run found it
C6_ReferenceRootTouchesNothing ==
    RootIsReference =>
        /\ result \in UnexpectedKind
        /\ DOMAIN lookups = {<<>>} /\ lookups[<<>>] = 1
        /\ fs = fs0 /\ journal = <<>> /\ blocking = {}

C6_Witness == Ended /\ RootIsReference /\ seen[<<>>] = Tag /\ IsFile(fs, args.local)

----------------------------------------------------------------------------
(* C7: when the lookup of a directory entry returns a commit or a tag, the *)
(* run fails, nothing is written at the local path of that entry, and what *)
(* other branches wrote is still on disk, as written, when the run ends.   *)

NestedReference(c) == c # <<>> /\ Replied(c) /\ seen[c].kind \in {"Commit", "Tag"}

\* every operation of this run that took effect still shows on disk
JournalOnDisk ==
    \A o \in DOMAIN journal :
        /\ Exists(fs, o.local_path)
        /\ fs[o.local_path] = IF o.op = "write" THEN FileNode(o.text) ELSE DirNode

\* C7: a commit or tag below the root fails the run, leaves its own path alone,
\* and everything written by the run stays on disk as written
C7_NestedReferenceNoRollback ==
    \A c \in DOMAIN seen :
        NestedReference(c) =>
            /\ result \in UnexpectedKind
            /\ Untouched(Local(c)) /\ OpsAt(Local(c)) = {}
            /\ JournalOnDisk

\* the run has ended on a nested tag, after a sibling file was written
C7_Witness ==
    /\ Ended /\ result = "UnexpectedTag"
    /\ \E c \in DOMAIN seen : NestedReference(c) /\ failedAt = <<c>>
    /\ \E o \in DOMAIN journal : o.op = "write" /\ IsFile(fs, o.local_path)

----------------------------------------------------------------------------
(* C8: the run reports success only when every lookup of the walk has      *)
(* returned a file with text or a directory and every write and directory  *)
(* creation has taken effect; a branch that fails makes the run fail.      *)

GoodReply(r) == (r.kind = "Blob" /\ r.text # <<>>) \/ r.kind = "Tree"

WalkComplete ==
    /\ DOMAIN seen = Chains \cup {<<>>}
    /\ \A c \in DOMAIN seen :
          /\ GoodReply(seen[c])
          /\ seen[c] = Remote(c)
          /\ lookups[c] >= 1
          /\ \E o \in OpsAt(Local(c)) :
                o.op = (IF seen[c].kind = "Blob" THEN "write" ELSE "mkdir")
    /\ \A c \in DOMAIN tasks : tasks[c].st = "done"
    /\ blocking = {}

\* C8: success is reported only with the whole walk completed, and never once a
\* branch has failed
C8_SuccessIffAllCompleted ==
    /\ result = "ok" => WalkComplete
    /\ (\E c \in DOMAIN seen : ~GoodReply(seen[c])) => result \notin {"ok", "none"}
    /\ failedAt # <<>> => result \notin {"ok", "none"}

C8_Witness ==
    /\ result = "ok" /\ Cardinality(Chains) >= 3
    /\ \E c \in Chains : Len(c) = 2

----------------------------------------------------------------------------
(* C9: a second successful run against the same remote tree and the same   *)
(* destination leaves the paths and contents the first run left, and the   *)
(* second run is not failed by what the first run wrote.                   *)

\* C9: a run after a successful run is not failed by the filesystem, and on
\* success leaves the filesystem as it found it
C9_RerunIdempotent ==
    runs > 1 =>
        /\ result \in {"none", "ok"} \cup RequestErrors
        /\ (Ended /\ result = "ok") => fs = fs0

C9_Witness ==
    /\ runs = 2 /\ Ended /\ result = "ok"
    /\ Count("write") >= 1 /\ Count("mkdir") >= 2

----------------------------------------------------------------------------
(* C10: a reply without a repository or without an object fails the run as *)
(* incomplete; on the start lookup nothing has been written or created, on *)
(* a nested entry nothing is written at the local path of that entry.      *)

Incomplete(c) == Replied(c) /\ seen[c].kind \in {"NoRepository", "NoObject"}

\* C10: a reply without repository or object fails the run as incomplete with
\* nothing written at the path of its branch (at the root: nothing at all)
C10_IncompleteResponseFails ==
    \A c \in DOMAIN seen :
        Incomplete(c) =>
            /\ result \in IncompleteErrors
            /\ c = <<>> => (fs = fs0 /\ journal = <<>> /\ blocking = {})
            /\ c # <<>> => (Untouched(Local(c)) /\ OpsAt(Local(c)) = {})

\* the run has ended on a nested entry without object, where a file lay before
C10_Witness ==
    /\ Ended /\ result = "IncompleteResponse"
    /\ \E c \in DOMAIN seen : c # <<>> /\ seen[c] = NoObject /\ IsFile(fs, Local(c))

----------------------------------------------------------------------------
(* C11: when a file with text is materialized, the directories above its   *)
(* path exist at the time of the write, and the write replaces what the    *)
(* file held.  The write itself creates no directory: below a tree the     *)
(* directories were made by the tree, and a root file whose parent is      *)
(* missing is not written.                                                 *)

TextFile(c) == Replied(c) /\ seen[c].kind = "Blob" /\ seen[c].text # <<>>

\* the write of the branch at c has returned, with Ok or with the error of the run
WriteReturned(c) ==
    failedAt = <<c>> \/ (c \in DOMAIN tasks /\ tasks[c].st = "done")

ProperPrefixes(p) == Prefixes(p) \ {p}

AncestorsAreDirs(f, p) == \A q \in ProperPrefixes(p) : IsDir(f, q)

TookEffect(o) ==
    o \in DOMAIN journal' /\ (o \in DOMAIN journal => journal'[o] > journal[o])

\* what the returned write of a file with text has led to
WriteOutcome(c) ==
    IF failedAt = <<c>>
    THEN \/ result = "IsADirectory" /\ IsDir(fs0, Local(c))
         \/ /\ c = <<>> /\ fs = fs0
            /\ \/ result = "NotFound" /\ ~Exists(fs0, Parent(Local(c)))
               \/ result = "NotADirectory" /\ FileAbove(fs0, Local(c))
    ELSE AncestorsAreDirs(fs, Local(c)) /\ fs[Local(c)] = FileNode(seen[c].text)

----------------------------------------------------------------------------
(* C12: the branch of the entry named n of a directory materialized at L   *)
(* carries the local path L joined with n, so the branch at a chain of     *)
(* names carries the destination joined with that chain, however the walk  *)
(* is scheduled.                                                           *)

\* C12: every branch in flight or completed carries the path of its directory
\* joined with its name, which is the destination joined with its chain of names,
\* and the operations of the run act on such paths only
C12_PathIsDestinationJoinedWithChain ==
    /\ \A c \in DOMAIN tasks :
          /\ c \in Chains \cup {<<>>}
          /\ tasks[c].local_path = Local(c)
          /\ c # <<>> =>
                /\ Parent(c) \in DOMAIN tasks
                /\ tasks[c].local_path = Join(tasks[Parent(c)].local_path, Last(c))
    /\ \A o \in DOMAIN journal \cup blocking :
          \E c \in DOMAIN seen : o.local_path = Local(c)

\* branches of depth one and two are in flight together
C12_Witness ==
    /\ pc = "walk"
    /\ \E c, d \in DOMAIN tasks :
          /\ Len(c) = 2 /\ Len(d) = 1 /\ ~IsPrefix(d, c)
          /\ tasks[c].st = "write" /\ tasks[d].st = "write"

----------------------------------------------------------------------------
(* C13: the lookup of a directory entry is sent only after the lookup of   *)
(* its parent has returned a tree and the local directory of the parent    *)
(* has been created; it never precedes or overlaps the lookup of its       *)
(* parent.                                                                 *)

\* a lookup for the branch at d is sent in this step
LookupSent(d) ==
    d \in DOMAIN lookups' /\ (d \in DOMAIN lookups => lookups'[d] > lookups[d])

\* the directory of the branch at c has been created by this run
DirCreated(f, j, c) ==
    /\ IsDir(f, Local(c))
    /\ \E o \in DOMAIN j : o.op = "mkdir" /\ o.local_path = Local(c)

\* C13: a lookup for an entry is sent only when the lookup of its parent had
\* returned a tree before and the directory of the parent is created; while a
\* branch exists its parent is past its own lookup and directory creation
C13_ChildLookupAfterParent ==
    /\ [](\A d \in DOMAIN lookups :
              d # <<>> =>
                  /\ Replied(Parent(d)) /\ seen[Parent(d)].kind = "Tree"
                  /\ DirCreated(fs, journal, Parent(d)))
    /\ [](\A d \in DOMAIN tasks :
              d # <<>> => tasks[Parent(d)].st \in {"collect", "done"})
    /\ [][\A d \in DOMAIN lookups' :
              (d # <<>> /\ LookupSent(d)) =>
                  /\ Replied(Parent(d)) /\ seen[Parent(d)].kind = "Tree"
                  /\ DirCreated(fs', journal', Parent(d))]_vars

\* the lookup of an entry two levels down is in flight
C13_Witness ==
    /\ pc = "walk"
    /\ \E d \in DOMAIN tasks : Len(d) = 2 /\ tasks[d].st = "query" /\ lookups[d] = 1

----------------------------------------------------------------------------
(* C14: a directory has at most (its number of entries + 1) branches in    *)
(* flight; that lets all its entries be in flight at once, none waiting    *)
(* for another; the bound is of one directory, and the branches in flight  *)
(* over the whole walk may exceed the bound of every single directory.     *)

\* the branches of the whole walk that are in flight
AllInFlight == {d \in DOMAIN tasks : d # <<>> /\ tasks[d].st # "done"}

\* C14: the tree at c has at most entries + 1 branches in flight, and from the
\* moment its entries are streamed every one of them has its branch started
C14_PerDirectoryConcurrency ==
    \A c \in DOMAIN tasks :
        (Replied(c) /\ seen[c].kind = "Tree") =>
            LET n == Len(EntriesOf(seen[c]))
            IN  /\ tasks[c].limit = n + 1
                /\ Cardinality(InFlight(tasks, c)) <= n + 1
                /\ tasks[c].st = "mkdir" => Children(tasks, c) = {}
                /\ tasks[c].st \in {"collect", "done"} =>
                      /\ tasks[c].rest = <<>>
                      /\ Cardinality(Children(tasks, c)) = n

\* more branches are in flight over the walk than the bound of any directory
\* allows for that directory, all entries of every streamed directory among them
C14_Witness ==
    /\ pc = "walk"
    /\ Cardinality({c \in DOMAIN tasks : tasks[c].st = "collect"}) >= 3
    /\ \A c \in DOMAIN tasks :
          tasks[c].st = "collect" =>
              /\ Cardinality(AllInFlight) > tasks[c].limit
              /\ Cardinality(InFlight(tasks, c)) = Len(EntriesOf(seen[c]))

----------------------------------------------------------------------------
(* C15: when a directory is to be materialized at a local path that a      *)
(* non-directory occupies, its materialization fails, none of its entries  *)
(* is looked up, nothing is written beneath the path, and the run reports  *)
(* failure.                                                                *)

\* the lookup at c returned a tree and a file lay at its local path
Conflict(c) == Replied(c) /\ seen[c].kind = "Tree" /\ IsFile(fs0, Local(c))

\* C15: a tree whose path is occupied by a file never gets past its directory
\* creation: no lookup below it, nothing on disk beneath it, the file as it was,
\* and the run never succeeds and ends in failure
C15_PathConflictFails ==
    \A c \in DOMAIN seen :
        Conflict(c) =>
            /\ \A d \in DOMAIN lookups : ~IsStrictPrefix(c, d)
            /\ \A q \in DOMAIN fs : ~IsStrictPrefix(Local(c), q)
            /\ Untouched(Local(c)) /\ OpsAt(Local(c)) = {}
            /\ c \in DOMAIN tasks => tasks[c].st = "mkdir"
            /\ failedAt = <<c>> => result = "AlreadyExists"
            /\ result # "ok"
            /\ Ended => result # "none"

\* the run has ended on a nested directory with entries whose path was a file
C15_Witness ==
    /\ Ended /\ result = "AlreadyExists"
    /\ \E c \in DOMAIN seen :
          /\ c # <<>> /\ Conflict(c) /\ failedAt = <<c>>
          /\ EntriesOf(seen[c]) # <<>>

----------------------------------------------------------------------------
(* C16: in a run, each occurrence of an entry in the listing of a parent   *)
(* lookup leads to at most one lookup by id, and to exactly one when the   *)
(* run succeeds; a lookup that failed is not sent again; exactly one start *)
(* lookup is sent in a run.                                                *)

\* the run has failed
Failed == result \notin {"none", "ok"}

\* the names the reply at c lists
NamesOf(c) == {EntriesOf(seen[c])[k].name : k \in 1..Len(EntriesOf(seen[c]))}

\* C16: no branch is looked up twice, lookups are sent for the start and for
\* listed entries only, a successful run has looked up every entry occurrence of
\* the tree once, and a failed run sends no lookup any more
C16_OneLookupPerEntry ==
    /\ [](/\ \A c \in DOMAIN lookups : lookups[c] = 1
          /\ pc # "args" <=> <<>> \in DOMAIN lookups
          /\ \A d \in DOMAIN lookups :
                d # <<>> => (Replied(Parent(d)) /\ Last(d) \in NamesOf(Parent(d)))
          /\ result = "ok" => DOMAIN lookups = Chains \cup {<<>>})
    /\ [][Failed => (lookups' = lookups /\ Failed')]_vars

\* a successful run over a tree that lists the same id twice has looked both
\* occurrences up
C16_Witness ==
    /\ Ended /\ result = "ok"
    /\ \E c, d \in DOMAIN lookups :
          /\ c # <<>> /\ d # <<>> /\ c # d /\ Parent(c) = Parent(d)
          /\ seen[c].kind = "Tree" /\ seen[c] = seen[d]

----------------------------------------------------------------------------
(* C17: with entry names unique within each listing, no two branches in    *)
(* flight have the same local path, so no two writes, and no write and     *)
(* directory creation, act on the same path within one run.                *)

\* the filesystem operations of the run: done, awaited, or left in the pool
AllOps == DOMAIN journal \cup blocking \cup PendingOps(tasks)

\* C17: the branches of the walk have pairwise different local paths, every
\* operation of the run takes effect at most once, and no two operations of the
\* run act on the same path
C17_NoTwoWritersOnePath ==
    /\ \A c, d \in DOMAIN tasks : c # d => tasks[c].local_path # tasks[d].local_path
    /\ \A o \in DOMAIN journal : journal[o] = 1
    /\ \A o1, o2 \in AllOps : o1.local_path = o2.local_path => o1 = o2

\* two writes are awaited at the same time, one of them below a directory the
\* run has created
C17_Witness ==
    /\ pc = "walk"
    /\ \E c, d \in DOMAIN tasks :
          /\ c # d /\ Len(c) = 2
          /\ tasks[c].st = "write" /\ tasks[d].st = "write"
          /\ \E o \in DOMAIN journal : o.op = "mkdir" /\ o.local_path = Local(Parent(c))

----------------------------------------------------------------------------
(* C18: once a branch has failed, the error is the result of the run in    *)
(* the same step and every other branch in flight is dropped: afterwards   *)
(* no lookup is sent, no reply is taken, and no write or directory         *)
(* creation is started; the other branches are not run to completion.      *)

\* C18: the step in which a branch fails leaves no branch of the walk, only the
\* operations already handed to the blocking pool; from then on the result and
\* the lookups stay, no reply is taken, and only operations from that pool take
\* effect
C18_FailureStopsTheWalk ==
    /\ [](Failed => (tasks = <<>> /\ failedAt # <<>>))
    /\ [][(~Failed /\ Failed') =>
              /\ tasks' = <<>> /\ lookups' = lookups /\ fs' = fs /\ journal' = journal
              /\ blocking' \subseteq PendingOps(tasks)]_vars
    /\ [][Failed =>
              /\ result' = result /\ failedAt' = failedAt
              /\ lookups' = lookups /\ seen' = seen /\ tasks' = <<>>
              /\ blocking' \subseteq blocking
              /\ \A o \in DOMAIN journal' : TookEffect(o) => o \in blocking \ blocking']_vars

\* the run has ended on the failure of a branch two levels down while a lookup
\* of another branch was never answered
C18_Witness ==
    /\ Ended /\ Failed
    /\ \E c \in DOMAIN seen : Len(c) = 2 /\ failedAt = <<c>>
    /\ \E d \in DOMAIN lookups : d \notin DOMAIN seen

----------------------------------------------------------------------------
(* C19: when every lookup and every filesystem operation returns in the    *)
(* end, the run ends, in success or in failure; a directory whose list of  *)
(* entries is empty or absent becomes a local directory with no lookup     *)
(* sent for it, and its materialization completes instead of blocking.     *)

\* the lookup at c returned a tree without entries
EmptyTree(c) == Replied(c) /\ seen[c].kind = "Tree" /\ EntriesOf(seen[c]) = <<>>

\* the directory of the tree at c can be created
Creatable(c) == CreateDirAll(fs0, Local(c)).res = "ok"

\* the run over an empty root: one lookup, one directory, nothing else
EmptyRootDone ==
    /\ Ended /\ result = "ok"
    /\ IsDir(fs, args.local)
    /\ DOMAIN lookups = {<<>>}
    /\ fs = CreateDirAll(fs0, args.local).fs

\* C19: every run ends; a tree that waits for its entries has one in flight; the
\* directory creation of a tree without entries completes the tree in the same
\* step with its directory on disk and no lookup sent; and the run over a root
\* without entries ends in success
C19_RunEnds ==
    /\ [](pc # "exited" => <>Ended)
    /\ [](\A c \in DOMAIN tasks : tasks[c].st = "collect" => InFlight(tasks, c) # {})
    /\ [][\A c \in DOMAIN tasks :
              (EmptyTree(c) /\ tasks[c].st = "mkdir" /\ c \in DOMAIN tasks'
                  /\ tasks'[c] # tasks[c]) =>
                  /\ tasks'[c].st = "done"
                  /\ IsDir(fs', Local(c))
                  /\ lookups' = lookups]_vars
    /\ [](\A c \in DOMAIN tasks :
              (EmptyTree(c) /\ tasks[c].st = "done") =>
                  /\ IsDir(fs, Local(c))
                  /\ \A d \in DOMAIN lookups : ~IsStrictPrefix(c, d))
    /\ (EmptyTree(<<>>) /\ Creatable(<<>>)) ~> EmptyRootDone

\* a successful run has made directories of a tree whose entries are absent and
\* of a tree whose list of entries is empty
C19_Witness ==
    /\ Ended /\ result = "ok"
    /\ \E c, d \in DOMAIN seen :
          /\ seen[c] = Tree(<<>>) /\ seen[d] = Tree(<< <<>> >>)
          /\ IsDir(fs, Local(c)) /\ IsDir(fs, Local(d))
          /\ ~Exists(fs0, Local(c)) /\ ~Exists(fs0, Local(d))

----------------------------------------------------------------------------
(* C20: when the lookup of a file, at the root or below, comes back        *)
(* without text, no write is made at the local path of that file: what was *)
(* there before the run, nothing or a file with its content, is there      *)
(* unchanged when the run ends.                                            *)

BinaryFile(c) == Replied(c) /\ seen[c] = Blob(<<>>)

\* C20: the local path of a file without text is as the run found it, no
\* operation took effect on it and none is left in the blocking pool for it
C20_BinaryLeavesTargetUntouched ==
    \A c \in DOMAIN seen :
        BinaryFile(c) =>
            /\ Untouched(Local(c))
            /\ OpsAt(Local(c)) = {}
            /\ \A o \in blocking \cup PendingOps(tasks) : o.local_path # Local(c)

\* the run has ended on a file without text where a file lay before, which
\* still holds what it held
C20_Witness ==
    /\ Ended
    /\ \E c \in DOMAIN seen :
          /\ BinaryFile(c) /\ failedAt = <<c>>
          /\ IsFile(fs0, Local(c)) /\ fs[Local(c)] = FileNode(OldText)

====
